---- MODULE Spec2Model ----
(***************************************************************************)
(* A model of seq2's text-to-sequence front end: the lexer of              *)
(* src/src/lexer.rs followed by the parser of src/src/parser.rs.           *)
(*                                                                         *)
(* A text is a sequence of one-character strings.  A token is a record     *)
(* [kind, start, end, val, str_val]; the variants of lexer.rs that carry   *)
(* a single `pos` have start = end = pos.  An integer value is kept as its *)
(* normalised sequence of decimal digits, so that the comparison against   *)
(* u32::MAX / i64::MAX is exact whatever the width of the checker's own    *)
(* integers.                                                               *)
(***************************************************************************)
EXTENDS Integers, Sequences, FiniteSets, TLC

VARIABLES
    text,           \* the &str handed to Lexer::new
    input,          \* Lexer.input: the characters not yet consumed
    position,       \* Lexer.position
    ch,             \* Lexer.ch
    tokens,         \* the local `tokens` vector of Lexer::lex
    lex_result,     \* what Lexer::lex returned
    phase,          \* where the pipeline stands
    abort,          \* the panic that ended the pipeline, if any
    p_tokens,       \* Parser.tokens: the tokens not yet consumed
    p_position,     \* Parser.position
    current_token,  \* Parser.current_token
    in_squiggly,    \* Parser.in_squiggly
    in_paren,       \* Parser.in_paren
    paren_depth,    \* Parser.paren_depth
    nodes,          \* the local `nodes` vector of Parser::parse
    ouput_queue,    \* the output queue of Parser::parse_math_expr
    operator_stack, \* the operator stack of Parser::parse_math_expr
    frames,         \* the active calls of Parser::infix_to_postfix, innermost last
    parse_result,   \* what Parser::parse returned
    lexed           \* the calls of Lexer::lex that returned: text and result

lexvars == <<text, input, position, ch, tokens, lex_result, lexed>>
parservars == <<p_tokens, p_position, current_token, in_squiggly, in_paren,
                paren_depth, nodes, ouput_queue, operator_stack, frames,
                parse_result>>
vars == <<text, input, position, ch, tokens, lex_result, phase, abort,
          p_tokens, p_position, current_token, in_squiggly, in_paren,
          paren_depth, nodes, ouput_queue, operator_stack, frames,
          parse_result, lexed>>

-----------------------------------------------------------------------------
(* Bounds of the checked inputs *)

MaxLen == 3
MaxRun == 4
MaxBody == 4
MaxZeros == 1
MaxLexers == 3

-----------------------------------------------------------------------------
(* Characters *)

Digits == {"0", "1", "2", "3", "4", "5", "6", "7", "8", "9"}

DigitVal(c) ==
    CASE c = "0" -> 0 [] c = "1" -> 1 [] c = "2" -> 2 [] c = "3" -> 3
      [] c = "4" -> 4 [] c = "5" -> 5 [] c = "6" -> 6 [] c = "7" -> 7
      [] c = "8" -> 8 [] c = "9" -> 9

NumberChars == Digits \cup {"_"}
RangeChars == {".", "="}
OperatorChars == {"+", "-", "*", "/", "^"}
ParenChars == {"(", ")", "{", "}"}

NUL == "\\0"

-----------------------------------------------------------------------------
(* Values *)

\* u32::MAX = 4294967295, the largest value number.parse::<u32>() accepts
U32_MAX == <<4, 2, 9, 4, 9, 6, 7, 2, 9, 5>>

RECURSIVE StripZeros(_)
StripZeros(ds) ==
    IF Len(ds) > 1 /\ Head(ds) = 0 THEN StripZeros(Tail(ds)) ELSE ds

RECURSIVE LexLeq(_, _)
LexLeq(a, b) ==
    IF a = <<>> THEN TRUE
    ELSE IF Head(a) # Head(b) THEN Head(a) < Head(b)
    ELSE LexLeq(Tail(a), Tail(b))

\* a <= b for two normalised digit sequences
DigitsLeq(a, b) ==
    \/ Len(a) < Len(b)
    \/ Len(a) = Len(b) /\ LexLeq(a, b)

ToDigits(s) == [i \in 1..Len(s) |-> DigitVal(s[i])]

\* str::parse::<u32> on a non-empty string of ASCII digits
ParseU32(number) ==
    LET v == StripZeros(ToDigits(number))
    IN  IF DigitsLeq(v, U32_MAX) THEN [ok |-> TRUE, val |-> v]
        ELSE [ok |-> FALSE, val |-> <<>>]

-----------------------------------------------------------------------------
(* Tokens and errors of the lexer *)

Tok(kind, s, e) ==
    [kind |-> kind, start |-> s, end |-> e, val |-> <<>>, str_val |-> <<>>]

IntTok(val, str_val, s, e) ==
    [kind |-> "Int", start |-> s, end |-> e, val |-> val, str_val |-> str_val]

LexErr(kind, s, e) == [kind |-> kind, start |-> s, end |-> e]

NoResult == [tag |-> "None"]
OkResult(v) == [tag |-> "Ok", value |-> v]
ErrResult(e) == [tag |-> "Err", err |-> e]

\* the largest value of the u16 position counter
U16_MAX == 65535

\* Lexer::next_char applied n times to the position, where `position += 1`
\* wraps around (a build without overflow checks)
NextChar(pos, n) == (pos + n) % (U16_MAX + 1)

\* `self.position - 1` in u16, wrapping likewise
PrevPos(pos) == (pos + U16_MAX) % (U16_MAX + 1)

\* the number of leading characters of s that lie in set
RunLen(s, set) ==
    LET out == {i \in 1..Len(s) : s[i] \notin set}
    IN  IF out = {} THEN Len(s)
        ELSE (CHOOSE i \in out : \A j \in out : i <= j) - 1

Drop(s, n) == SubSeq(s, n + 1, Len(s))

-----------------------------------------------------------------------------
(* Lexer: the tokenize_* methods.  Each yields the number of characters it *)
(* consumed and the TokenResult it returned.                               *)

\* Lexer::tokenize_parenteses
TokenizeParenteses(c, pos) ==
    CASE c = "(" -> Tok("LParen", pos, pos)
      [] c = ")" -> Tok("RParen", pos, pos)
      [] c = "{" -> Tok("LSquiggly", pos, pos)
      [] c = "}" -> Tok("RSquiggly", pos, pos)

\* Lexer::tokenize_operator
TokenizeOperator(c, pos) ==
    CASE c = "+" -> Tok("MathAdd", pos, pos)
      [] c = "-" -> Tok("MathSub", pos, pos)
      [] c = "*" -> Tok("MathMul", pos, pos)
      [] c = "/" -> Tok("MathDiv", pos, pos)
      [] c = "^" -> Tok("MathPow", pos, pos)

RECURSIVE ScanRange(_, _, _, _, _)
\* the while loop of Lexer::tokenize_range over the remaining characters s,
\* n of the run already consumed
ScanRange(s, n, dot_count, inclusive, prev_ch) ==
    IF s # <<>> /\ Head(s) \in RangeChars
    THEN IF Head(s) = "."
         THEN IF prev_ch = "="
              THEN [unexpected |-> TRUE, n |-> n, dot_count |-> dot_count,
                    inclusive |-> inclusive]
              ELSE ScanRange(Tail(s), n + 1, dot_count + 1, inclusive, ".")
         ELSE ScanRange(Tail(s), n + 1, dot_count, TRUE, "=")
    ELSE [unexpected |-> FALSE, n |-> n, dot_count |-> dot_count,
          inclusive |-> inclusive]

\* tokenize_range accepting every run of two dots or more: the variant
\* C6_RangeRun rules out
TokenizeRangeAtLeastTwoDots(inp, pos, c) ==
    LET start_pos == pos
        scan == ScanRange(inp, 0, 0, FALSE, c)
        end_pos == PrevPos(NextChar(pos, scan.n))
    IN  IF scan.unexpected
        THEN [n |-> scan.n,
              res |-> ErrResult(LexErr("UnexpectedEqual", start_pos, start_pos))]
        ELSE IF scan.dot_count < 2
        THEN [n |-> scan.n,
              res |-> ErrResult(LexErr("InvalidRange", start_pos, end_pos))]
        ELSE IF scan.inclusive
        THEN [n |-> scan.n, res |-> OkResult(Tok("RngInclusive", start_pos, end_pos))]
        ELSE [n |-> scan.n, res |-> OkResult(Tok("RngExclusive", start_pos, end_pos))]

\* Lexer::tokenize_range
TokenizeRange(inp, pos, c) ==
    LET start_pos == pos
        scan == ScanRange(inp, 0, 0, FALSE, c)
        end_pos == PrevPos(NextChar(pos, scan.n))
    IN  IF scan.unexpected
        THEN [n |-> scan.n,
              res |-> ErrResult(LexErr("UnexpectedEqual", start_pos, start_pos))]
        ELSE IF scan.dot_count # 2
        THEN [n |-> scan.n,
              res |-> ErrResult(LexErr("InvalidRange", start_pos, end_pos))]
        ELSE IF scan.inclusive
        THEN [n |-> scan.n, res |-> OkResult(Tok("RngInclusive", start_pos, end_pos))]
        ELSE [n |-> scan.n, res |-> OkResult(Tok("RngExclusive", start_pos, end_pos))]

\* tokenize_range_arg reporting MissingColon one column after the letter: the
\* variant C8_RangeArg rules out
TokenizeRangeArgAtNextColumn(inp, pos, c) ==
    LET start_pos == pos
        after == NextChar(pos, 1)
    IN  IF Len(inp) >= 2 /\ inp[2] = ":"
        THEN [n |-> 2,
              res |-> OkResult(Tok(IF c = "s" THEN "RngStep" ELSE "RngMutation",
                                   start_pos, PrevPos(NextChar(after, 1))))]
        ELSE [n |-> 1,
              res |-> ErrResult(LexErr("MissingColon", after, after))]

\* Lexer::tokenize_range_arg
TokenizeRangeArg(inp, pos, c) ==
    LET start_pos == pos
        after == NextChar(pos, 1)
    IN  IF Len(inp) >= 2 /\ inp[2] = ":"
        THEN [n |-> 2,
              res |-> OkResult(Tok(IF c = "s" THEN "RngStep" ELSE "RngMutation",
                                   start_pos, PrevPos(NextChar(after, 1))))]
        ELSE [n |-> 1,
              res |-> ErrResult(LexErr("MissingColon", PrevPos(after), PrevPos(after)))]

\* tokenize_numbers with a span that counts the digits only: the variant
\* C4_IntOfRun rules out
TokenizeNumbersDigitSpan(inp, pos) ==
    LET start_pos == pos
        n == RunLen(inp, NumberChars)
        str_val == SubSeq(inp, 1, n)
        number == SelectSeq(str_val, LAMBDA c : c # "_")
        end_pos == PrevPos(NextChar(pos, Len(number)))
        parsed == ParseU32(number)
    IN  IF parsed.ok
        THEN [n |-> n, res |-> OkResult(IntTok(parsed.val, str_val, start_pos, end_pos))]
        ELSE [n |-> n, res |-> ErrResult(LexErr("MalformedNumber", start_pos, end_pos))]

\* Lexer::tokenize_numbers
TokenizeNumbers(inp, pos) ==
    LET start_pos == pos
        n == RunLen(inp, NumberChars)
        str_val == SubSeq(inp, 1, n)
        number == SelectSeq(str_val, LAMBDA c : c # "_")
        end_pos == PrevPos(NextChar(pos, n))
        parsed == ParseU32(number)
    IN  IF parsed.ok
        THEN [n |-> n, res |-> OkResult(IntTok(parsed.val, str_val, start_pos, end_pos))]
        ELSE [n |-> n, res |-> ErrResult(LexErr("MalformedNumber", start_pos, end_pos))]

-----------------------------------------------------------------------------
(* Lexer::lex: one action per arm of the match in its loop *)

\* todo!, unreachable! or an index out of bounds
Panic(msg) ==
    /\ abort' = msg
    /\ phase' = "done"

\* what consuming n more characters does to the counter: nothing special
\* while it fits; past U16_MAX a build with overflow checks panics and one
\* without them wraps around
Builds(n) ==
    IF position + n > U16_MAX THEN {"checked", "wrapping"} ELSE {"fits"}

\* the panic of `self.position += 1` in a build with overflow checks:
\* next_char has taken every character up to and including the one whose
\* increment overflows, and the counter stays at U16_MAX
LexOverflow ==
    /\ Panic("attempt to add with overflow")
    /\ ch' = Head(input)
    /\ input' = Drop(input, U16_MAX - position + 1)
    /\ position' = U16_MAX
    /\ UNCHANGED <<text, tokens, lex_result, lexed>>
    /\ UNCHANGED parservars

\* a token was pushed (or a space skipped over) after consuming n characters
LexPush(tok, n) ==
    \E build \in Builds(n) :
        IF build = "checked" THEN LexOverflow
        ELSE /\ ch' = Head(input)
             /\ tokens' = Append(tokens, tok)
             /\ input' = Drop(input, n)
             /\ position' = NextChar(position, n)
             /\ UNCHANGED <<text, lex_result, phase, abort, lexed>>
             /\ UNCHANGED parservars

\* the `?` of lex: the error is returned and the token vector dropped
LexFail(err, n) ==
    \E build \in Builds(n) :
        IF build = "checked" THEN LexOverflow
        ELSE /\ ch' = Head(input)
             /\ tokens' = <<>>
             /\ input' = Drop(input, n)
             /\ position' = NextChar(position, n)
             /\ lex_result' = ErrResult(err)
             /\ lexed' = Append(lexed, [text |-> text, result |-> ErrResult(err)])
             /\ phase' = "done"
             /\ UNCHANGED <<text, abort>>
             /\ UNCHANGED parservars

LexTokenResult(r) ==
    IF r.res.tag = "Ok" THEN LexPush(r.res.value, r.n) ELSE LexFail(r.res.err, r.n)

Lexing == phase = "lex" /\ input # <<>>

LexSpace ==
    /\ Lexing /\ Head(input) = " "
    /\ LexPush(Tok("Space", position, position), 1)

LexComma ==
    /\ Lexing /\ Head(input) = ","
    /\ LexPush(Tok("Comma", position, position), 1)

LexNumber ==
    /\ Lexing /\ Head(input) \in Digits
    /\ LexTokenResult(TokenizeNumbers(input, position))

LexRange ==
    /\ Lexing /\ Head(input) = "."
    /\ LexTokenResult(TokenizeRange(input, position, Head(input)))

LexRangeArg ==
    /\ Lexing /\ Head(input) \in {"s", "m"}
    /\ LexTokenResult(TokenizeRangeArg(input, position, Head(input)))

LexOperator ==
    /\ Lexing /\ Head(input) \in OperatorChars
    /\ LexPush(TokenizeOperator(Head(input), position), 1)

LexParen ==
    /\ Lexing /\ Head(input) \in ParenChars
    /\ LexPush(TokenizeParenteses(Head(input), position), 1)

\* the wildcard arm reporting the column after the character: the variant
\* C12_InvalidToken rules out
LexInvalidAtNextColumn ==
    /\ Lexing
    /\ Head(input) \notin {" ", ",", ".", "s", "m"} \cup Digits \cup OperatorChars \cup ParenChars
    /\ LexFail(LexErr("InvalidToken", position + 1, position + 1), 0)

LexInvalid ==
    /\ Lexing
    /\ Head(input) \notin {" ", ",", ".", "s", "m"} \cup Digits \cup OperatorChars \cup ParenChars
    /\ LexFail(LexErr("InvalidToken", position, position), 0)

\* the loop ends at the end of the input: Ok(tokens)
LexEnd ==
    /\ phase = "lex" /\ input = <<>>
    /\ lex_result' = OkResult(tokens)
    /\ lexed' = Append(lexed, [text |-> text, result |-> OkResult(tokens)])
    /\ phase' = "new"
    /\ UNCHANGED <<text, input, position, ch, tokens, abort>>
    /\ UNCHANGED parservars

LexStep ==
    \/ LexSpace \/ LexComma \/ LexNumber \/ LexRange \/ LexRangeArg
    \/ LexOperator \/ LexParen \/ LexInvalid \/ LexEnd


-----------------------------------------------------------------------------
(* Parser: its methods as operators over the cursor                        *)
(* P = [tokens, position, current_token]                                   *)

MAX_PAREN_DEPTH == 69

NoToken == Tok("None", 0, 0)

MathKinds == {"MathAdd", "MathSub", "MathMul", "MathDiv", "MathPow", "MathMod"}
SignKinds == {"MathAdd", "MathSub"}

ParseErr(kind, s, e) == [kind |-> kind, start |-> s, end |-> e]

\* Node::Int; the value is a sign and a magnitude
IntNode(s, e, neg, mag) ==
    [node |-> "Int", start |-> s, end |-> e,
     value |-> [neg |-> neg /\ mag # <<0>>, mag |-> mag]]

\* Parser::advance
Advance(P) ==
    [P EXCEPT !.tokens = IF P.tokens = <<>> THEN <<>> ELSE Tail(P.tokens),
              !.position = P.position + 1]

RECURSIVE CommaLoop(_, _)
\* the while loop of Parser::advance_past_comma
CommaLoop(P, comma_count) ==
    IF P.tokens # <<>> /\ Head(P.tokens).kind = "Comma"
    THEN LET P1 == Advance([P EXCEPT !.current_token = Head(P.tokens)])
         IN  IF comma_count + 1 > 1
             THEN [P |-> P1,
                   res |-> ErrResult(ParseErr("UnexpectedComma",
                               P1.current_token.start, P1.current_token.end))]
             ELSE CommaLoop(P1, comma_count + 1)
    ELSE [P |-> P, res |-> OkResult(<<>>)]

\* advance_past_comma letting a second comma through: the variant
\* C14_UnexpectedComma rules out
AdvancePastCommaTwice(P) ==
    LET r == CommaLoop(Advance(P), -1)
    IN  IF r.res.tag = "Ok" /\ r.P.tokens # <<>>
        THEN [r EXCEPT !.P.current_token = Head(r.P.tokens)]
        ELSE r

\* Parser::advance_past_comma
AdvancePastComma(P) ==
    LET r == CommaLoop(Advance(P), 0)
    IN  IF r.res.tag = "Ok" /\ r.P.tokens # <<>>
        THEN [r EXCEPT !.P.current_token = Head(r.P.tokens)]
        ELSE r

\* one iteration of the for loop of Parser::check_unmatched_paren on token t;
\* the stack holds the spans of the open parentheses, innermost last, and
\* stop tells how the iteration left the loop, if it did
CheckParenIter(t, stack) ==
    IF t.kind = "LParen"
    THEN [stack |-> Append(stack, [start |-> t.start, end |-> t.end]),
          stop |-> "no", err |-> ParseErr("None", 0, 0)]
    ELSE IF t.kind = "RParen"
    THEN IF stack = <<>>
         THEN [stack |-> stack, stop |-> "return",
               err |-> ParseErr("UnmatchedParen", t.start, t.end)]
         ELSE [stack |-> SubSeq(stack, 1, Len(stack) - 1),
               stop |-> "no", err |-> ParseErr("None", 0, 0)]
    ELSE IF t.kind \in MathKinds \cup {"Int"}
    THEN [stack |-> stack, stop |-> "no", err |-> ParseErr("None", 0, 0)]
    ELSE [stack |-> stack, stop |-> "break", err |-> ParseErr("None", 0, 0)]

RECURSIVE CheckParenRange(_, _, _, _)
\* the iterations of that loop on the tokens lo..hi of toks, in order, from
\* the loop state s; the range is split in two so that the evaluation stays
\* shallow on long token lists
CheckParenRange(toks, lo, hi, s) ==
    IF s.stop # "no" \/ lo > hi THEN s
    ELSE IF lo = hi THEN CheckParenIter(toks[lo], s.stack)
    ELSE LET mid == (lo + hi) \div 2
         IN  CheckParenRange(toks, mid + 1, hi, CheckParenRange(toks, lo, mid, s))

\* the for loop and the final pop of Parser::check_unmatched_paren
CheckParenLoop(toks, stack) ==
    LET s == CheckParenRange(toks, 1, Len(toks),
                 [stack |-> stack, stop |-> "no", err |-> ParseErr("None", 0, 0)])
    IN  IF s.stop = "return" THEN ErrResult(s.err)
        ELSE IF s.stack # <<>>
        THEN ErrResult(ParseErr("UnmatchedParen",
                 s.stack[Len(s.stack)].start, s.stack[Len(s.stack)].end))
        ELSE OkResult(<<>>)

\* check_unmatched_paren scanning from the token after the current one: the
\* variant C21_ExcessRParen rules out
CheckUnmatchedParenAfterCurrent(P) == CheckParenLoop(Tail(P.tokens), <<>>)

\* Parser::check_unmatched_paren
CheckUnmatchedParen(P) == CheckParenLoop(P.tokens, <<>>)

\* parser_int negating as soon as one '-' is met: the variant C17_SignedInt
\* rules out
ParserIntAnyMinus(P) ==
    LET span_start == P.current_token.start
        kinds == [i \in 1..Len(P.tokens) |-> P.tokens[i].kind]
        n == RunLen(kinds, SignKinds)
        minus_count == Cardinality({i \in 1..n : kinds[i] = "MathSub"})
        is_negative == minus_count > 0
        P1 == [P EXCEPT !.tokens = Drop(P.tokens, n), !.position = P.position + n]
    IN  IF P1.tokens = <<>>
        THEN [P |-> P1,
              res |-> ErrResult(ParseErr("IncompleteInt",
                          P.current_token.start, P.current_token.end))]
        ELSE LET P2 == [P1 EXCEPT !.current_token = Head(P1.tokens)]
                 cur == P2.current_token
             IN  IF cur.kind = "Int"
                 THEN LET r == AdvancePastComma(P2)
                      IN  IF r.res.tag = "Ok"
                          THEN [P |-> r.P,
                                res |-> OkResult(IntNode(span_start, cur.end,
                                                         is_negative, cur.val))]
                          ELSE r
                 ELSE [P |-> P2,
                       res |-> ErrResult(ParseErr("InvalidInt", cur.start, cur.end))]

\* Parser::parser_int
ParserInt(P) ==
    LET span_start == P.current_token.start
        kinds == [i \in 1..Len(P.tokens) |-> P.tokens[i].kind]
        n == RunLen(kinds, SignKinds)
        minus_count == Cardinality({i \in 1..n : kinds[i] = "MathSub"})
        is_negative == minus_count % 2 # 0
        P1 == [P EXCEPT !.tokens = Drop(P.tokens, n), !.position = P.position + n]
    IN  IF P1.tokens = <<>>
        THEN [P |-> P1,
              res |-> ErrResult(ParseErr("IncompleteInt",
                          P.current_token.start, P.current_token.end))]
        ELSE LET P2 == [P1 EXCEPT !.current_token = Head(P1.tokens)]
                 cur == P2.current_token
             IN  IF cur.kind = "Int"
                 THEN LET r == AdvancePastComma(P2)
                      IN  IF r.res.tag = "Ok"
                          THEN [P |-> r.P,
                                res |-> OkResult(IntNode(span_start, cur.end,
                                                         is_negative, cur.val))]
                          ELSE r
                 ELSE [P |-> P2,
                       res |-> ErrResult(ParseErr("InvalidInt", cur.start, cur.end))]


-----------------------------------------------------------------------------
(* Parser::new and Parser::parse: one action per arm of parse_t            *)

Cursor == [tokens |-> p_tokens, position |-> p_position,
           current_token |-> current_token]

\* the cursor at the top of a loop iteration: current_token = the peeked token
Peeked == [Cursor EXCEPT !.current_token = Head(p_tokens)]

SetCursor(P) ==
    /\ p_tokens' = P.tokens
    /\ p_position' = P.position
    /\ current_token' = P.current_token

\* an Err travelling up through every `?` to the caller of parse
ParseFail(P, err) ==
    /\ SetCursor(P)
    /\ parse_result' = ErrResult(err)
    /\ nodes' = <<>>
    /\ frames' = <<>>
    /\ ouput_queue' = <<>>
    /\ operator_stack' = <<>>
    /\ phase' = "done"
    /\ UNCHANGED abort

\* the lexed tokens as the parser's tokens::Token values: TokenKind has no
\* kind for a space, so the slice Parser::new is given holds the other
\* tokens, each with its span
Significant == SelectSeq(lex_result.value, LAMBDA t : t.kind # "Space")

\* Parser::new on the tokens of the text, as tokens::Token values
ParserNew ==
    /\ phase = "new"
    /\ UNCHANGED lexvars
    /\ IF Significant = <<>>
       THEN /\ Panic("index out of bounds: tokens[0]")
            /\ UNCHANGED parservars
       ELSE /\ p_tokens' = Significant
            /\ p_position' = 0
            /\ current_token' = Significant[1]
            /\ in_squiggly' = FALSE
            /\ in_paren' = FALSE
            /\ paren_depth' = 0
            /\ phase' = "parse"
            /\ UNCHANGED <<abort, nodes, ouput_queue, operator_stack, frames,
                           parse_result>>

Parsing == phase = "parse" /\ p_tokens # <<>>

\* a node came back from parse_t and is pushed
ParseIntResult(r) ==
    IF r.res.tag = "Ok"
    THEN /\ SetCursor(r.P)
         /\ nodes' = Append(nodes, r.res.value)
         /\ UNCHANGED <<phase, abort, frames, ouput_queue, operator_stack,
                        parse_result>>
    ELSE ParseFail(r.P, r.res.err)

ParseTInt ==
    /\ Parsing /\ Head(p_tokens).kind = "Int"
    /\ ParseIntResult(ParserInt(Peeked))
    /\ UNCHANGED <<in_squiggly, in_paren, paren_depth>>
    /\ UNCHANGED lexvars

ParseTComma ==
    /\ Parsing /\ Head(p_tokens).kind = "Comma"
    /\ ParseFail(Peeked, ParseErr("UnexpectedComma",
                                  Head(p_tokens).start, Head(p_tokens).end))
    /\ UNCHANGED <<in_squiggly, in_paren, paren_depth>>
    /\ UNCHANGED lexvars

ParseTSign ==
    /\ Parsing /\ Head(p_tokens).kind \in SignKinds
    /\ ParseIntResult(ParserInt(Peeked))
    /\ UNCHANGED <<in_squiggly, in_paren, paren_depth>>
    /\ UNCHANGED lexvars

ParseTMathOp ==
    /\ Parsing /\ Head(p_tokens).kind \in MathKinds \ SignKinds
    /\ ParseFail(Peeked, ParseErr("UnexpectedMathOp",
                                  Head(p_tokens).start, Head(p_tokens).end))
    /\ UNCHANGED <<in_squiggly, in_paren, paren_depth>>
    /\ UNCHANGED lexvars

\* the entry of Parser::infix_to_postfix, up to its loop: the depth grows, the
\* cursor advances, and the call either fails on the depth or becomes the
\* innermost active call
InfixEnter(P, start) ==
    LET P1 == Advance(P)
    IN  /\ paren_depth' = paren_depth + 1
        /\ IF paren_depth + 1 > MAX_PAREN_DEPTH
           THEN ParseFail(P1, ParseErr("TooManyParen", start, P1.current_token.end))
           ELSE /\ SetCursor(P1)
                /\ frames' = Append(frames, [start |-> start, token_count |-> 0,
                                             is_start |-> TRUE])
                /\ phase' = "infix"
                /\ UNCHANGED <<abort, nodes, ouput_queue, operator_stack,
                               parse_result>>

\* parse_t on '(': Parser::parse_math_expr up to the loop of infix_to_postfix
ParseTLParen ==
    /\ Parsing /\ Head(p_tokens).kind = "LParen"
    /\ LET chk == CheckUnmatchedParen(Peeked)
       IN  IF chk.tag = "Err"
           THEN /\ ParseFail(Peeked, chk.err)
                /\ UNCHANGED <<in_paren, paren_depth>>
           ELSE /\ in_paren' = TRUE
                /\ InfixEnter(Advance(Peeked), Head(p_tokens).start)
    /\ UNCHANGED in_squiggly
    /\ UNCHANGED lexvars

\* parse_t on any other token: todo!
ParseTTodo ==
    /\ Parsing
    /\ Head(p_tokens).kind \notin {"Int", "Comma", "LParen"} \cup MathKinds
    /\ Panic("not yet implemented: Unexpected token")
    /\ current_token' = Head(p_tokens)
    /\ UNCHANGED <<p_tokens, p_position, in_squiggly, in_paren, paren_depth,
                   nodes, ouput_queue, operator_stack, frames, parse_result>>
    /\ UNCHANGED lexvars

\* the loop of parse ends at the end of the tokens: Ok(nodes)
ParseEnd ==
    /\ phase = "parse" /\ p_tokens = <<>>
    /\ parse_result' = OkResult(nodes)
    /\ phase' = "done"
    /\ UNCHANGED <<abort, p_tokens, p_position, current_token, in_squiggly,
                   in_paren, paren_depth, nodes, ouput_queue, operator_stack,
                   frames>>
    /\ UNCHANGED lexvars

ParseStep ==
    \/ ParseTInt \/ ParseTComma \/ ParseTSign \/ ParseTMathOp
    \/ ParseTLParen \/ ParseTTodo \/ ParseEnd


-----------------------------------------------------------------------------
(* Parser::infix_to_postfix: one action per arm of the match in its loop   *)

InInfix == phase = "infix" /\ p_tokens # <<>>

Top == frames[Len(frames)]

SetIsStart(b) == frames' = [frames EXCEPT ![Len(frames)].is_start = b]

\* what follows the loop of infix_to_postfix, left by `break` or at the end of
\* the tokens: the emptiness check, then the return to the caller
InfixFinish(P) ==
    IF Top.token_count = 0
    THEN ParseFail(P, ParseErr("EmptyParen", Top.start, P.current_token.end + 1))
    ELSE /\ SetCursor(P)
         /\ UNCHANGED <<nodes, ouput_queue, operator_stack, parse_result>>
         /\ IF Len(frames) = 1
            THEN /\ Panic("not yet implemented: Implement shunting yard algorithm")
                 /\ frames' = <<>>
            ELSE /\ frames' = [SubSeq(frames, 1, Len(frames) - 1)
                                 EXCEPT ![Len(frames) - 1].is_start = FALSE]
                 /\ UNCHANGED <<phase, abort>>

InfixRParen ==
    /\ InInfix /\ Head(p_tokens).kind = "RParen"
    /\ paren_depth' = paren_depth - 1
    /\ IF paren_depth - 1 > 0
       THEN /\ Panic("not yet implemented: Pop the opertator stack")
            /\ SetCursor(Advance(Peeked))
            /\ UNCHANGED <<nodes, ouput_queue, operator_stack, frames,
                           parse_result>>
       ELSE InfixFinish(Advance(Peeked))
    /\ UNCHANGED <<in_squiggly, in_paren>>
    /\ UNCHANGED lexvars

InfixLParen ==
    /\ InInfix /\ Head(p_tokens).kind = "LParen"
    /\ InfixEnter(Peeked, Top.start)
    /\ UNCHANGED <<in_squiggly, in_paren>>
    /\ UNCHANGED lexvars

\* the arms with an empty body: the cursor stays where it is
InfixNoOp ==
    /\ current_token' = Head(p_tokens)
    /\ SetIsStart(FALSE)
    /\ UNCHANGED <<p_tokens, p_position, in_squiggly, in_paren, paren_depth,
                   nodes, ouput_queue, operator_stack, parse_result, phase,
                   abort>>
    /\ UNCHANGED lexvars

InfixInt ==
    /\ InInfix /\ Head(p_tokens).kind = "Int"
    /\ InfixNoOp

InfixUnary ==
    /\ InInfix /\ Head(p_tokens).kind \in SignKinds /\ Top.is_start
    /\ LET r == ParserInt(Peeked)
       IN  IF r.res.tag = "Ok"
           THEN /\ SetCursor(r.P)
                /\ ouput_queue' = Append(ouput_queue,
                       [kind |-> "Int", start |-> r.res.value.start,
                        end |-> r.res.value.end, val |-> r.res.value.value,
                        str_val |-> <<>>])
                /\ SetIsStart(FALSE)
                /\ UNCHANGED <<nodes, operator_stack, parse_result, phase, abort>>
           ELSE ParseFail(r.P, r.res.err)
    /\ UNCHANGED <<in_squiggly, in_paren, paren_depth>>
    /\ UNCHANGED lexvars

InfixUnexpectedOp ==
    /\ InInfix /\ Head(p_tokens).kind \in MathKinds \ SignKinds /\ Top.is_start
    /\ ParseFail(Peeked, ParseErr("UnexpectedMathOp",
                                  Head(p_tokens).start, Head(p_tokens).end))
    /\ UNCHANGED <<in_squiggly, in_paren, paren_depth>>
    /\ UNCHANGED lexvars

InfixMath ==
    /\ InInfix /\ Head(p_tokens).kind \in MathKinds /\ ~Top.is_start
    /\ InfixNoOp

InfixOther ==
    /\ InInfix
    /\ Head(p_tokens).kind \notin {"RParen", "LParen", "Int"} \cup MathKinds
    /\ ParseFail(Peeked, ParseErr("IncompleteMathExpr",
                                  Top.start, Head(p_tokens).end))
    /\ UNCHANGED <<in_squiggly, in_paren, paren_depth>>
    /\ UNCHANGED lexvars

InfixEnd ==
    /\ phase = "infix" /\ p_tokens = <<>>
    /\ InfixFinish(Cursor)
    /\ UNCHANGED <<in_squiggly, in_paren, paren_depth>>
    /\ UNCHANGED lexvars

InfixStep ==
    \/ InfixRParen \/ InfixLParen \/ InfixInt \/ InfixUnary
    \/ InfixUnexpectedOp \/ InfixMath \/ InfixOther \/ InfixEnd


-----------------------------------------------------------------------------
(* The texts the pipeline is run on *)

Alphabet ==
    {"1", "_", ".", "=", "s", "m", ":", "@", "+", "-", "*", "/", "^", "%",
     "(", ")", "{", "}", ",", " ", "#"}

SeqsUpTo(set, n) == UNION {[1..k -> set] : k \in 0..n}

\* every text of at most MaxLen characters
ShortTexts == SeqsUpTo(Alphabet, MaxLen)

\* a range whose operator is any run of '.' and '=' that starts with a '.'
RangeRuns == {r \in SeqsUpTo(RangeChars, MaxRun) : r # <<>> /\ r[1] = "."}
RangeTexts == {<<"{", "1">> \o r \o <<"5", "}">> : r \in RangeRuns}

\* a parenthesised item with any body of at most MaxBody characters
BodyAlphabet == {"1", "+", "*", "(", ")", ","}
ParenTexts == {<<"(">> \o b \o <<")">> : b \in SeqsUpTo(BodyAlphabet, MaxBody)}

\* the largest value of an i64, named by the NumberTooLarge message
I64_MAX == <<9, 2, 2, 3, 3, 7, 2, 0, 3, 6, 8, 5, 4, 7, 7, 5, 8, 0, 7>>

DigitChar(d) == CHOOSE c \in Digits : DigitVal(c) = d

\* digit runs around the limits of u32 and i64: the limit with its last digit
\* replaced, behind up to MaxZeros leading zeros, with or without a '_'
NumberBodies ==
    {[i \in 1..Len(m) |-> DigitChar(IF i = Len(m) THEN d ELSE m[i])] :
        m \in {U32_MAX, I64_MAX}, d \in 0..9}
Zeros(k) == [i \in 1..k |-> "0"]
NumberTexts ==
    {Zeros(k) \o b : k \in 0..MaxZeros, b \in NumberBodies}
    \cup {Zeros(k) \o SubSeq(b, 1, i) \o <<"_">> \o SubSeq(b, i + 1, Len(b)) :
             k \in 0..MaxZeros, b \in NumberBodies, i \in {1, 4, 10}}

\* the inputs of the repository's tests, documentation and benchmark
TestTexts == {
    \* src/src/lexer.rs tests
    <<"1", ",", "2", ",", "3">>,
    <<"+", ",", "-", ",", "*", ",", "/", ",", "^">>,
    <<"{", "1", ".", ".", "=", "5", "}">>,
    <<"{", "1", ".", "=", ".", "5", "}">>,
    <<"{", "1", ".", ".", ".", "5", "}">>,
    <<"{", "1", ".", "=", "5", "}">>,
    <<"{", "1", ".", ".", "=", "5", ",", " ", "s", ":", "2", "}">>,
    <<"{", "1", ".", ".", "=", "5", ",", " ", "m", ":", "+", "2", "0", "_", "5", "0", "0", "_", "5", "0", "0", "}">>,
    <<"{", "1", ".", ".", "=", "5", ",", " ", "m", ":", "2", ",", " ", "s", ":", "-", "1", "0", "}">>,
    <<"{", "1", ".", ".", "=", "5", ",", " ", "s", "}">>,
    \* src/src/tests/lexer.rs
    <<"1", ",", "2", ",", "#", "3">>,
    <<"{", "1", ".", ".", "5", "}">>,
    <<"{", "s", ":", "1", ",", "m", ":", "+", "2", "0", "_", "0", "0", "0", "_", "0", "0", "0", "}">>,
    <<"{", "1", ".", ".", "=", "5", ",", " ", "s", "2", "}">>,
    <<"s", ":", "1">>,
    <<"1", ",", " ", "3", ",", " ", "2", "_", "_", "0", "0", "0", ",", " ", "@">>,
    \* src/src/tests/parser.rs
    <<",", "1", ",", "2", ",", "3">>,
    <<"1", ",", ",", "2", ",", "3">>,
    <<"1", " ", "*", " ", "1", "0", ",", "2", ",", "3">>,
    <<"1", ",", " ", "1", "0", ",", " ", " ", "2", " ", " ", "^", " ", "1", "0", ",", "3">>,
    <<"1", ",", " ", "1", "0", ",", " ", "-">>,
    <<"1", ",", " ", "1", "0", ",", " ", "(", "-", "+", "-", ")", ",", "3">>,
    <<"1", ",", " ", "-", "+", "%", ",", " ", "1", "0", ",", " ", "3">>,
    <<"-", "-", "1", "0">>,
    <<"-", "+", "1", "0">>,
    <<"1", ",", " ", "(", "1", "0", " ", "+", " ", "3", ")", " ", "+", " ", "(", "5", " ", "*", " ", "3", ")", ")", ")", " ", ",", " ", "3">>,
    <<"1", ",", " ", "(">>,
    <<"1", ",", " ", "2", ",", " ", "-", "3", ",", " ", "(", ")">>,
    \* src/src/lib.rs and src/benches/bench_lexer.rs
    <<"-", "1", ",", " ", "-", "2", ",", " ", "-", "3", ",", " ", "{", "1", ".", ".", "=", "3", ",", " ", "s", ":", "2", ",", " ", "m", ":", "+", "2", "}", ",", " ", "(", "2", "0", "0", " ", "^", " ", "2", " ", "+", " ", "1", ")">>,
    <<"(", "1", " ", "+", " ", "2", " ", "-", " ", "3", ")">>,
    <<"(", "-", "2", "^", "3", " ", "-", " ", "(", "3", " ", "*", " ", "1", "0", "0", " ", "/", " ", "2", "0", ")", ")">>,
    <<"{", "3", ".", ".", "=", "1", "}">>,
    <<"{", "-", "3", ".", ".", "=", "-", "6", "}">>,
    <<"{", "5", ".", ".", "=", "0", ",", " ", "s", ":", "-", "2", "}">>,
    <<"{", "1", ".", ".", "=", "5", ",", " ", "m", ":", "+", "2", "}">>,
    <<"{", "5", ".", ".", "=", "1", ",", " ", "s", ":", "-", "2", ",", " ", "m", ":", "-", "2", "}">>,
    <<"{", "(", "1", " ", "-", " ", "(", "1", "0", " ", "^", " ", "2", ")", ")", ".", ".", "-", "1", "0", "8", ",", " ", "s", ":", "3", ",", " ", "m", ":", "*", "-", "1", "}">>,
    <<"{", "1", ".", ".", "=", "2", "0", ",", " ", "s", ":", "1", ",", " ", "m", ":", "*", "1", "0", "-", "(", "2", "0", "0", " ", "^", " ", "5", ")", "}", ",", " ", "-", "1", ",", " ", "-", "2", "0", "0", "0", "0", "0", "0", "0", "0", ",", " ", "-", "3", ",", " ", "-", "2", ",", " ", "-", "3", ",", " ", "{", "1", ".", ".", "=", "3", ",", " ", "s", ":", "2", ",", " ", "m", ":", "+", "2", "}", ",", " ", "(", "2", "0", "0", " ", "^", " ", "2", " ", "+", " ", "1", ")">>
}

WithoutSpaces(t) == SelectSeq(t, LAMBDA c : c # " ")

Repeat(c, n) == [i \in 1..n |-> c]

\* test_too_many_parenthesis: '4+4' inside n pairs of parentheses, then ', 5'
DeepParen(n) ==
    Repeat("(", n) \o <<"4", "+", "4">> \o Repeat(")", n) \o <<",", " ", "5">>

\* nestings around the cap: one below it, at it, and the test's two above it
DeepParenTexts ==
    {DeepParen(n) : n \in (MAX_PAREN_DEPTH - 1)..(MAX_PAREN_DEPTH + 2)}

\* a number that fills the columns up to the last one the counter can hold
LongRun == <<"1">> \o Repeat("_", U16_MAX - 2)

\* texts that end at, or go one or two characters past, column U16_MAX
LongTexts == {LongRun \o t : t \in {<<>>, <<"_">>, <<",">>, <<",", "1">>}}

Texts ==
    ShortTexts \cup RangeTexts \cup ParenTexts \cup NumberTexts
    \cup TestTexts \cup {WithoutSpaces(t) : t \in TestTexts}
    \cup DeepParenTexts

-----------------------------------------------------------------------------
(* The pipeline: Lexer::new(text).lex(), then Parser::new(..).parse()      *)

\* the state after Lexer::new on a text of T
InitOn(T) ==
    /\ text \in T
    /\ input = text
    /\ position = 1
    /\ ch = NUL
    /\ tokens = <<>>
    /\ lex_result = NoResult
    /\ phase = "lex"
    /\ abort = "none"
    /\ p_tokens = <<>>
    /\ p_position = 0
    /\ current_token = NoToken
    /\ in_squiggly = FALSE
    /\ in_paren = FALSE
    /\ paren_depth = 0
    /\ nodes = <<>>
    /\ ouput_queue = <<>>
    /\ operator_stack = <<>>
    /\ frames = <<>>
    /\ parse_result = NoResult
    /\ lexed = <<>>

Init == InitOn(Texts)

Next == LexStep \/ ParserNew \/ ParseStep \/ InfixStep

Spec == Init /\ [][Next]_vars

-----------------------------------------------------------------------------
(* Several lexers, one after the other *)

\* Lexer::new(text).lex() alone, on short texts and on texts as long as the
\* position counter is wide
InitLong == InitOn(ShortTexts \cup LongTexts)

NextLong == LexStep

SpecLong == InitLong /\ [][NextLong]_vars

\* texts that between them take every arm of Lexer::lex
RelexTexts == {
    <<"1", ",", " ", "2">>,
    <<"s", ":", "1">>,
    <<"s", "2">>,
    <<"{", ".", ".", "}">>,
    <<"1", ".", ".", ".">>,
    <<"(", "+", ")">>,
    <<"#">>
}

\* Lexer::new keeping the position of the lexer before it: the variant
\* C13_SameTextSameResult rules out
LexerNewKeepsPosition ==
    /\ phase \in {"new", "done"}
    /\ Len(lexed) < MaxLexers
    /\ \E t \in RelexTexts :
          /\ text' = t
          /\ input' = t
    /\ ch' = NUL
    /\ tokens' = <<>>
    /\ lex_result' = NoResult
    /\ phase' = "lex"
    /\ UNCHANGED <<position, abort, lexed>>
    /\ UNCHANGED parservars

\* Lexer::new on another text, once the lexer before it has returned
LexerNew ==
    /\ phase \in {"new", "done"}
    /\ Len(lexed) < MaxLexers
    /\ \E t \in RelexTexts :
          /\ text' = t
          /\ input' = t
    /\ position' = 1
    /\ ch' = NUL
    /\ tokens' = <<>>
    /\ lex_result' = NoResult
    /\ phase' = "lex"
    /\ UNCHANGED <<abort, lexed>>
    /\ UNCHANGED parservars

InitRelex == InitOn(RelexTexts)

NextRelex == LexStep \/ LexerNew

SpecRelex == InitRelex /\ [][NextRelex]_vars


-----------------------------------------------------------------------------
(* Vocabulary of the properties *)

\* the 1-indexed offset in the text of the character the lexer looks at
TextIndex == Len(text) - Len(input) + 1

\* the lexer is at the top of its loop, looking at a character of set
LexerAt(set) == phase = "lex" /\ input # <<>> /\ Head(input) \in set

\* the most recent brace before offset i of t is a '{'
BraceContext(t, i) ==
    \E j \in 1..(i - 1) :
        /\ t[j] = "{"
        /\ \A k \in (j + 1)..(i - 1) : t[k] \notin {"{", "}"}

LexicalErrors ==
    {"InvalidToken", "MissingColon", "InvalidRange", "UnexpectedEqual",
     "MalformedNumber", "NumberTooLarge", "MisplacedRngSyntax"}

SyntacticErrors ==
    {"UnexpectedComma", "UnexpectedMathOp", "IncompleteInt", "InvalidInt",
     "EmptyParen", "IncompleteMathExpr", "InvalidMathExpr", "InvalidMathOp",
     "UnmatchedParen", "TooManyParen"}

SetMin(S) == CHOOSE x \in S : \A y \in S : x <= y

-----------------------------------------------------------------------------
(* C1 *)

\* C1: lexing a text and parsing its tokens always ends with an Ok value or
\* with an error of the lexical or syntactic taxonomy, never with a panic.
C1_EndsWithOkOrErr ==
    phase = "done" =>
        /\ abort = "none"
        /\ \/ lex_result.tag = "Err" /\ lex_result.err.kind \in LexicalErrors
           \/ /\ lex_result.tag = "Ok"
              /\ \/ parse_result.tag = "Ok"
                 \/ /\ parse_result.tag = "Err"
                    /\ parse_result.err.kind \in SyntacticErrors

-----------------------------------------------------------------------------
(* C2 *)

\* C2: every iteration of a scanning loop of lex or parse consumes at least
\* one character or token, or leaves the loop.
C2_EveryIterationProgresses ==
    [][\/ Len(input') < Len(input)
       \/ Len(p_tokens') < Len(p_tokens)
       \/ phase' # phase]_vars

-----------------------------------------------------------------------------
(* C3 *)

LegalChars ==
    {" ", ",", "_", ".", "=", "s", "m", ":", "@", "+", "-", "*", "/", "^", "%"}
    \cup Digits \cup ParenChars

\* the offsets of t that hold a fault whatever surrounds them: a character of
\* no token, or a range-only character outside brace context
Faults(t) ==
    {i \in 1..Len(t) :
        \/ t[i] \notin LegalChars
        \/ t[i] \in {"s", "m", "@"} /\ ~BraceContext(t, i)}

\* C3: on a text with several faults the call returns exactly one error, for
\* the leftmost fault (so not right of the leftmost of these faults), and no
\* token list or node list beside it.
C3_FailFastLeftmost ==
    (phase = "done" /\ Cardinality(Faults(text)) >= 2) =>
        /\ abort = "none"
        /\ lex_result.tag = "Err"
        /\ lex_result.err.start <= SetMin(Faults(text))
        /\ tokens = <<>>
        /\ parse_result = NoResult
        /\ nodes = <<>>

-----------------------------------------------------------------------------
(* C4 *)

\* the digits of a run with every '_' removed
RunDigits(run) == ToDigits(SelectSeq(run, LAMBDA c : c \in Digits))

\* the decimal value of a run, as its digits without the leading zeros
DecimalValue(run) ==
    LET ds == RunDigits(run)
        z == RunLen(ds, {0})
    IN  IF z = Len(ds) THEN <<0>> ELSE SubSeq(ds, z + 1, Len(ds))

RECURSIVE NatValue(_)
\* the number a digit sequence of at most 9 digits denotes
NatValue(ds) ==
    IF ds = <<>> THEN 0
    ELSE 10 * NatValue(SubSeq(ds, 1, Len(ds) - 1)) + ds[Len(ds)]

\* the maximal run of digits and '_' the lexer is looking at
NumberRun == SubSeq(input, 1, RunLen(input, NumberChars))

\* C4: a maximal run of digits and '_' that lexes to a token lexes to exactly
\* one Int token, whose value is the decimal value of the run without its '_'
\* and whose span is the whole run, underscores included.
C4_IntOfRun ==
    [][(LexerAt(Digits) /\ lex_result'.tag # "Err") =>
          LET run == NumberRun
              tok == tokens'[Len(tokens')]
          IN  /\ Len(tokens') = Len(tokens) + 1
              /\ SubSeq(tokens', 1, Len(tokens)) = tokens
              /\ input' = Drop(input, Len(run))
              /\ input' = <<>> \/ Head(input') \notin NumberChars
              /\ tok.kind = "Int"
              /\ tok.start = TextIndex
              /\ tok.end = TextIndex + Len(run) - 1
              /\ tok.val = DecimalValue(run)
              /\ Len(RunDigits(run)) <= 9 =>
                    NatValue(tok.val) = NatValue(RunDigits(run))]_vars

\* '20_000_000' at columns 9..18 became the Int 20000000 with span 9..18
C4_Witness ==
    /\ lex_result.tag = "Ok"
    /\ \E i \in 1..Len(lex_result.value) :
          LET t == lex_result.value[i]
          IN  /\ t.kind = "Int" /\ t.start = 9 /\ t.end = 18
              /\ t.val = <<2, 0, 0, 0, 0, 0, 0, 0>>
              /\ SubSeq(text, 9, 18) =
                    <<"2", "0", "_", "0", "0", "0", "_", "0", "0", "0">>

-----------------------------------------------------------------------------
(* C5 *)

\* C5: a digit run of value at most i64::MAX lexes to an Int of that value,
\* and a larger one to NumberTooLarge with the span of the run.
C5_Int64Range ==
    [][LexerAt(Digits) =>
          LET run == NumberRun
              v == DecimalValue(run)
              s == TextIndex
              e == TextIndex + Len(run) - 1
          IN  IF DigitsLeq(v, I64_MAX)
              THEN /\ lex_result'.tag # "Err"
                   /\ tokens' = Append(tokens, IntTok(v, run, s, e))
              ELSE lex_result' = ErrResult(LexErr("NumberTooLarge", s, e))]_vars

-----------------------------------------------------------------------------
(* C6, C7 *)

\* the maximal run of '.' and '=' the lexer is looking at
RangeRun == SubSeq(input, 1, RunLen(input, RangeChars))

DotCount(run) == Cardinality({k \in 1..Len(run) : run[k] = "."})

\* an '=' of the run is directly followed by another '=' or by a '.'
StrayEqual(run) == \E k \in 1..(Len(run) - 1) : run[k] = "="

\* what the lexer is to make of the run it is looking at
RangeRunYields(kind) ==
    /\ lex_result'.tag # "Err"
    /\ tokens' = Append(tokens,
                    Tok(kind, TextIndex, TextIndex + Len(RangeRun) - 1))

RangeRunFails(kind, s, e) == lex_result' = ErrResult(LexErr(kind, s, e))

\* C6 as claimed: '..' gives RngExclusive over 2 characters, '..=' gives
\* RngInclusive over 3, and every run whose number of dots is not 2 gives
\* InvalidRange from the first to the last character of the run.
C6_AsClaimed ==
    [][LexerAt({"."}) =>
          LET run == RangeRun
          IN  /\ run = <<".", ".">> => RangeRunYields("RngExclusive")
              /\ run = <<".", ".", "=">> => RangeRunYields("RngInclusive")
              /\ DotCount(run) # 2 =>
                    RangeRunFails("InvalidRange", TextIndex,
                                  TextIndex + Len(run) - 1)]_vars

\* C6 as amended: the same, the InvalidRange case being that of the runs
\* made of dots with at most one '=' at their end.
C6_RangeRun ==
    [][LexerAt({"."}) =>
          LET run == RangeRun
          IN  /\ run = <<".", ".">> => RangeRunYields("RngExclusive")
              /\ run = <<".", ".", "=">> => RangeRunYields("RngInclusive")
              /\ (DotCount(run) # 2 /\ ~StrayEqual(run)) =>
                    RangeRunFails("InvalidRange", TextIndex,
                                  TextIndex + Len(run) - 1)]_vars

\* '{1...5}' gave InvalidRange with span 3..5
C6_Witness ==
    /\ text = <<"{", "1", ".", ".", ".", "5", "}">>
    /\ lex_result = ErrResult(LexErr("InvalidRange", 3, 5))

\* C7: a run in which an '=' is directly followed by another '=' or by a '.'
\* gives UnexpectedEqual, and no range token.
C7_UnexpectedEqual ==
    [][(LexerAt({"."}) /\ StrayEqual(RangeRun)) =>
          /\ lex_result'.tag = "Err"
          /\ lex_result'.err.kind = "UnexpectedEqual"
          /\ tokens' = <<>>]_vars

-----------------------------------------------------------------------------
(* C8, C9 *)

\* C8: in brace context 's:' and 'm:' give RngStep and RngMutation over both
\* characters, and an 's' or 'm' followed by anything else, or by nothing,
\* gives MissingColon at the position of the letter.
C8_RangeArg ==
    [][(LexerAt({"s", "m"}) /\ BraceContext(text, TextIndex)) =>
          IF Len(input) >= 2 /\ input[2] = ":"
          THEN /\ lex_result'.tag # "Err"
               /\ tokens' = Append(tokens,
                     Tok(IF Head(input) = "s" THEN "RngStep" ELSE "RngMutation",
                         TextIndex, TextIndex + 1))
               /\ input' = Drop(input, 2)
          ELSE lex_result' =
                  ErrResult(LexErr("MissingColon", TextIndex, TextIndex))]_vars

\* '{1..=5, s2}' gave MissingColon with span 9..9
C8_Witness ==
    /\ text = <<"{", "1", ".", ".", "=", "5", ",", " ", "s", "2", "}">>
    /\ BraceContext(text, 9)
    /\ lex_result = ErrResult(LexErr("MissingColon", 9, 9))

\* C9: outside brace context 's', 'm' and '@' give MisplacedRngSyntax at
\* their position, and inside it '@' gives a RngMutArg token.
C9_BraceContextOnly ==
    [][LexerAt({"s", "m", "@"}) =>
          IF BraceContext(text, TextIndex)
          THEN Head(input) = "@" =>
                  /\ lex_result'.tag # "Err"
                  /\ tokens' = Append(tokens,
                                  Tok("RngMutArg", TextIndex, TextIndex))
          ELSE lex_result' =
                  ErrResult(LexErr("MisplacedRngSyntax", TextIndex, TextIndex))]_vars

-----------------------------------------------------------------------------
(* C10 *)

OperatorTag(c) ==
    CASE c = "+" -> "MathAdd" [] c = "-" -> "MathSub" [] c = "*" -> "MathMul"
      [] c = "/" -> "MathDiv" [] c = "^" -> "MathPow" [] c = "%" -> "MathMod"

\* C10: each of + - * / ^ % lexes to one operator token of its own tag, with
\* the span of that character.
C10_SixOperators ==
    [][LexerAt({"+", "-", "*", "/", "^", "%"}) =>
          /\ lex_result'.tag # "Err"
          /\ tokens' = Append(tokens,
                          Tok(OperatorTag(Head(input)), TextIndex, TextIndex))
          /\ input' = Tail(input)]_vars


-----------------------------------------------------------------------------
(* C11, C12 *)

\* C11: the token list lex returns holds no token for a whitespace character;
\* a space only moves the position on.
C11_WhitespaceSkipped ==
    lex_result.tag = "Ok" =>
        \A i \in 1..Len(lex_result.value) :
            /\ lex_result.value[i].kind # "Space"
            /\ text[lex_result.value[i].start] # " "

\* the characters of the alphabet that belong to no token where the lexer
\* meets them at the top of its loop
StrayChars == {"_", "=", ":", "#"}

\* C12: a character that belongs to no token makes lex return InvalidToken
\* whose span is the position of that character alone.
C12_InvalidToken ==
    [][LexerAt(StrayChars) =>
          /\ lex_result' =
                ErrResult(LexErr("InvalidToken", TextIndex, TextIndex))
          /\ tokens' = <<>>]_vars

\* '1,2,#3' gave InvalidToken with span 5..5
C12_Witness ==
    /\ text = <<"1", ",", "2", ",", "#", "3">>
    /\ lex_result = ErrResult(LexErr("InvalidToken", 5, 5))

-----------------------------------------------------------------------------
(* C13 *)

\* C13: two lexers created on the same text return the same result, the
\* same token list with the same spans or the same error, whatever was lexed
\* before or in between.
C13_SameTextSameResult ==
    \A i, j \in 1..Len(lexed) :
        lexed[i].text = lexed[j].text => lexed[i].result = lexed[j].result

\* a text lexed to a token list, another text lexed, the first text lexed again
C13_Witness ==
    /\ Len(lexed) = 3
    /\ lexed[1].text = lexed[3].text
    /\ lexed[2].text # lexed[1].text
    /\ lexed[1].result.tag = "Ok"
    /\ lexed[1].result.value # <<>>
    /\ lexed[2].result.tag = "Err"

-----------------------------------------------------------------------------
(* Vocabulary of the properties of parse *)

\* the kinds of the tokens parse has not consumed yet
AheadKinds == [i \in 1..Len(p_tokens) |-> p_tokens[i].kind]

\* the length of the run of '+' and '-' tokens the parser is looking at
SignRun == RunLen(AheadKinds, SignKinds)

\* the k-th token after that run, and whether there is one
AfterSigns(k) == p_tokens[SignRun + k]
HasAfterSigns(k) == Len(p_tokens) >= SignRun + k

\* parse is at the start of an item made of signs, if any, and an Int
AtIntItem == Parsing /\ HasAfterSigns(1) /\ AfterSigns(1).kind = "Int"

-----------------------------------------------------------------------------
(* C14 *)

\* C14: a comma as the very first token gives UnexpectedComma with the span
\* of that comma, and two commas in a row after an item give UnexpectedComma
\* with the span of the second comma.
C14_UnexpectedComma ==
    [][/\ (Parsing /\ p_position = 0 /\ Head(p_tokens).kind = "Comma") =>
             parse_result' =
                ErrResult(ParseErr("UnexpectedComma",
                             Head(p_tokens).start, Head(p_tokens).end))
       /\ (/\ AtIntItem
           /\ HasAfterSigns(3)
           /\ AfterSigns(2).kind = "Comma"
           /\ AfterSigns(3).kind = "Comma") =>
             parse_result' =
                ErrResult(ParseErr("UnexpectedComma",
                             AfterSigns(3).start, AfterSigns(3).end))]_vars

\* '1,,2,3' gave UnexpectedComma at the second comma, position 3
C14_Witness ==
    /\ text = <<"1", ",", ",", "2", ",", "3">>
    /\ parse_result = ErrResult(ParseErr("UnexpectedComma", 3, 3))

-----------------------------------------------------------------------------
(* C15, C16 *)

\* the kinds of the tokens Parser::new is given, in order
GivenKinds ==
    [i \in 1..Len(Significant) |-> Significant[i].kind]

\* Int tokens with one comma after each of them, the last one included
IntsWithTrailingComma(kinds) ==
    /\ Len(kinds) >= 2
    /\ Len(kinds) % 2 = 0
    /\ \A i \in 1..Len(kinds) :
          kinds[i] = IF i % 2 = 1 THEN "Int" ELSE "Comma"

CommaCount(kinds) == Cardinality({i \in 1..Len(kinds) : kinds[i] = "Comma"})

\* C15: a token list that ends with a comma after a well-formed last item
\* makes parse return UnexpectedComma, never Ok.
C15_TrailingComma ==
    (/\ phase = "done"
     /\ lex_result.tag = "Ok"
     /\ IntsWithTrailingComma(GivenKinds)) =>
        /\ parse_result.tag = "Err"
        /\ parse_result.err.kind = "UnexpectedComma"

\* C16: on success parse returns one node per comma-separated item, so as
\* many nodes as commas plus one; items with no comma between them are not
\* accepted as two items.  (Lists ending with a comma are the case of C15.)
C16_OneNodePerItem ==
    (/\ parse_result.tag = "Ok"
     /\ GivenKinds[Len(GivenKinds)] # "Comma") =>
        Len(parse_result.value) = CommaCount(GivenKinds) + 1

-----------------------------------------------------------------------------
(* C17 *)

\* the number of '-' tokens of the sign run
MinusCount == Cardinality({i \in 1..SignRun : AheadKinds[i] = "MathSub"})

\* v, or -v when minus is odd
SignedValue(v, minus) ==
    [neg |-> minus % 2 = 1 /\ v # <<0>>, mag |-> v]

\* two commas follow the item: the case of C14
TwoCommasFollow ==
    /\ HasAfterSigns(3)
    /\ AfterSigns(2).kind = "Comma"
    /\ AfterSigns(3).kind = "Comma"

\* C17: a top-level item of k >= 0 sign tokens and an Int token of value v
\* yields one Int node, of value v when the number of '-' is even and -v when
\* it is odd, with the span from the first sign to the end of the Int.
C17_SignedInt ==
    [][(AtIntItem /\ ~TwoCommasFollow) =>
          /\ Len(nodes') = Len(nodes) + 1
          /\ SubSeq(nodes', 1, Len(nodes)) = nodes
          /\ nodes'[Len(nodes')] =
                [node |-> "Int",
                 start |-> Head(p_tokens).start,
                 end |-> AfterSigns(1).end,
                 value |-> SignedValue(AfterSigns(1).val, MinusCount)]
          /\ parse_result' = NoResult]_vars

\* '-+10' was parsed to the one node Int -10 with span 1..4
C17_Witness ==
    /\ text = <<"-", "+", "1", "0">>
    /\ parse_result =
          OkResult(<<[node |-> "Int", start |-> 1, end |-> 4,
                      value |-> [neg |-> TRUE, mag |-> <<1, 0>>]]>>)

-----------------------------------------------------------------------------
(* C18, C19 *)

\* C18: a run of one or more sign tokens followed by the end of the input
\* gives IncompleteInt with the span of the last sign token of the run.
C18_IncompleteInt ==
    [][(Parsing /\ SignRun >= 1 /\ SignRun = Len(p_tokens)) =>
          parse_result' =
             ErrResult(ParseErr("IncompleteInt",
                          p_tokens[SignRun].start, p_tokens[SignRun].end))]_vars

\* the index, in the tokens the parser is given, of the first token of the first
\* number: the first token, or the one after an opening parenthesis
FirstNumberAt ==
    IF Significant[1].kind = "LParen" THEN 2 ELSE 1

\* the length of the sign run that starts there
FirstSignRun == RunLen(Drop(GivenKinds, FirstNumberAt - 1), SignKinds)

\* the parentheses of the first item match
FirstParenMatched == CheckParenLoop(Significant, <<>>).tag = "Ok"

\* C19: a run of sign tokens followed by a token that is not an Int gives
\* InvalidInt with the span of that token, at the top level and at the start
\* of a parenthesised expression alike.
C19_InvalidInt ==
    (/\ phase = "done"
     /\ lex_result.tag = "Ok"
     /\ Significant # <<>>
     /\ FirstParenMatched
     /\ FirstSignRun >= 1
     /\ Len(Significant) >= FirstNumberAt + FirstSignRun
     /\ GivenKinds[FirstNumberAt + FirstSignRun] # "Int") =>
        LET t == Significant[FirstNumberAt + FirstSignRun]
        IN  parse_result = ErrResult(ParseErr("InvalidInt", t.start, t.end))

-----------------------------------------------------------------------------
(* C20 *)

BinaryOnlyKinds == {"MathMul", "MathDiv", "MathPow", "MathMod"}

UnexpectedMathOpAt(t) ==
    ErrResult(ParseErr("UnexpectedMathOp", t.start, t.end))

\* C20: a '*', '/', '^' or '%' token where an item must start gives
\* UnexpectedMathOp with the span of the operator; at the start of a
\* parenthesised expression parse gives the same error and does not go past
\* the operator without it.
C20_UnexpectedMathOp ==
    [][/\ (Parsing /\ Head(p_tokens).kind \in BinaryOnlyKinds) =>
             parse_result' = UnexpectedMathOpAt(Head(p_tokens))
       /\ (/\ Parsing
           /\ Head(p_tokens).kind = "LParen"
           /\ CheckParenLoop(p_tokens, <<>>).tag = "Ok"
           /\ p_tokens[2].kind \in BinaryOnlyKinds) =>
             \/ parse_result' = UnexpectedMathOpAt(p_tokens[2])
             \/ /\ parse_result' = NoResult
                /\ Len(p_tokens') >= Len(p_tokens) - 1]_vars

-----------------------------------------------------------------------------
(* C21, C22 *)

\* the kinds of token the pre-scan walks over
ScanKinds == MathKinds \cup {"Int", "LParen", "RParen"}

\* the number of tokens ahead the pre-scan walks over
ScanLen == RunLen(AheadKinds, ScanKinds)

\* how many '(' are open after the first i tokens ahead
OpenAfter(i) ==
    Cardinality({j \in 1..i : AheadKinds[j] = "LParen"})
    - Cardinality({j \in 1..i : AheadKinds[j] = "RParen"})

\* the i-th token ahead is the first ')' with no '(' left to match it
ExcessAt(i) ==
    /\ i \in 1..ScanLen
    /\ OpenAfter(i) < 0
    /\ \A j \in 1..(i - 1) : OpenAfter(j) >= 0

\* parse is about to enter a parenthesised expression
AtLParen == Parsing /\ Head(p_tokens).kind = "LParen"

UnmatchedParenAt(t) == ErrResult(ParseErr("UnmatchedParen", t.start, t.end))

\* C21: on entering a parenthesised expression, a ')' of the tokens ahead
\* with no open '(' left to match it makes parse return UnmatchedParen with
\* the span of the first such ')', before any token is consumed.
C21_ExcessRParen ==
    [][AtLParen =>
          \A i \in 1..ScanLen :
              ExcessAt(i) =>
                 /\ parse_result' = UnmatchedParenAt(p_tokens[i])
                 /\ p_tokens' = p_tokens]_vars

\* '1, (10 + 3) + (5 * 3))) , 3' gave UnmatchedParen at the first excess ')',
\* column 22
C21_Witness ==
    /\ text = <<"1", ",", " ", "(", "1", "0", " ", "+", " ", "3",
                 ")", " ", "+", " ", "(", "5", " ", "*", " ", "3", ")", ")",
                 ")", " ", ",", " ", "3">>
    /\ text[22] = ")"
    /\ parse_result = ErrResult(ParseErr("UnmatchedParen", 22, 22))

\* the tokens ahead the pre-scan leaves open: a '(' after which the number of
\* open '(' never falls back to what it was before it
LeftOpen ==
    {i \in 1..ScanLen :
        /\ AheadKinds[i] = "LParen"
        /\ \A j \in i..ScanLen : OpenAfter(j) >= OpenAfter(i)}

\* C22: when the pre-scan ends with '(' still open, parse returns
\* UnmatchedParen with the span of the leftmost '(' that has no matching ')'.
C22_LeftmostOpenParen ==
    [][(AtLParen /\ LeftOpen # {} /\ \A i \in 1..ScanLen : ~ExcessAt(i)) =>
          parse_result' = UnmatchedParenAt(p_tokens[SetMin(LeftOpen)])]_vars

\* how many '(' the parser has consumed and not yet seen closed
OpenConsumed ==
    LET n == Len(Significant) - Len(p_tokens)
    IN  Cardinality({i \in 1..n : Significant[i].kind = "LParen"})
        - Cardinality({i \in 1..n : Significant[i].kind = "RParen"})

IsTooManyParen ==
    parse_result.tag = "Err" /\ parse_result.err.kind = "TooManyParen"

\* the deepest nesting of the parentheses of the tokens the parser is given
NestingDepth ==
    LET ks == GivenKinds
        open(i) == Cardinality({j \in 1..i : ks[j] = "LParen"})
                   - Cardinality({j \in 1..i : ks[j] = "RParen"})
    IN  IF ks = <<>> THEN 0
        ELSE CHOOSE d \in {open(i) : i \in 1..Len(ks)} :
                 \A i \in 1..Len(ks) : open(i) <= d

\* C23: nesting of at most 69 levels never yields TooManyParen; once the
\* parser has gone 70 or more levels deep and no further '(' follows, parse
\* has returned TooManyParen; the depth counter and the recursion depth never
\* pass the cap plus one.
C23_DepthCap ==
    /\ (lex_result.tag = "Ok" /\ NestingDepth <= MAX_PAREN_DEPTH)
          => ~IsTooManyParen
    /\ (/\ lex_result.tag = "Ok" /\ phase \in {"parse", "infix", "done"}
        /\ OpenConsumed >= MAX_PAREN_DEPTH + 1
        /\ (p_tokens = <<>> \/ Head(p_tokens).kind # "LParen"))
          => IsTooManyParen
    /\ paren_depth <= MAX_PAREN_DEPTH + 1
    /\ Len(frames) <= MAX_PAREN_DEPTH + 1

IsEmptyParen(r) == r.tag = "Err" /\ r.err.kind = "EmptyParen"

\* the parser's tokens hold a '(' that starts at column c and is directly
\* followed by a ')'
EmptyPairAt(c) ==
    \E i \in 1..(Len(GivenKinds) - 1) :
        /\ GivenKinds[i] = "LParen" /\ GivenKinds[i + 1] = "RParen"
        /\ Significant[i].start = c

\* the parser has just entered a '(' that is directly followed by a ')'
InEmptyPair ==
    LET n == Len(Significant) - Len(p_tokens)
    IN  /\ phase = "infix" /\ frames # <<>> /\ Top.is_start
        /\ n >= 2
        /\ GivenKinds[n - 1] = "LParen" /\ GivenKinds[n] = "RParen"

EmptyPairStart ==
    Significant[Len(Significant) - Len(p_tokens) - 1].start

\* C24: parse returns EmptyParen exactly for a '(' directly followed by its
\* ')': having entered such a pair it returns EmptyParen with a span that
\* starts at the '(', and whenever EmptyParen is returned its span starts at
\* such a '('.
C24_EmptyParen ==
    [][/\ InEmptyPair
          => /\ IsEmptyParen(parse_result')
             /\ parse_result'.err.start = EmptyPairStart
       /\ IsEmptyParen(parse_result')
          => EmptyPairAt(parse_result'.err.start)]_vars

-----------------------------------------------------------------------------
(* C25 *)

\* the integer a node's value denotes (values of at most 9 digits)
NodeInt(v) == IF v.neg THEN 0 - NatValue(v.mag) ELSE NatValue(v.mag)

\* the precedence of a binary operator
Prec(k) ==
    CASE k \in {"MathAdd", "MathSub"} -> 1
      [] k \in {"MathMul", "MathDiv", "MathMod"} -> 2
      [] k = "MathPow" -> 3

Abs(a) == IF a < 0 THEN 0 - a ELSE a

\* division that truncates toward zero
Quot(a, b) ==
    IF (a < 0) = (b < 0) THEN Abs(a) \div Abs(b) ELSE 0 - (Abs(a) \div Abs(b))

RECURSIVE Pow(_, _)
Pow(a, n) == IF n = 0 THEN 1 ELSE a * Pow(a, n - 1)

\* whether a binary operation has an integer result
Defined(k, a, b) ==
    CASE k \in {"MathDiv", "MathMod"} -> b # 0
      [] k = "MathPow" -> b >= 0
      [] OTHER -> TRUE

Apply(k, a, b) ==
    CASE k = "MathAdd" -> a + b
      [] k = "MathSub" -> a - b
      [] k = "MathMul" -> a * b
      [] k = "MathDiv" -> Quot(a, b)
      [] k = "MathMod" -> a - b * Quot(a, b)
      [] k = "MathPow" -> Pow(a, b)

Malformed == [ok |-> FALSE, v |-> 0, i |-> 0]

RECURSIVE Primary(_, _)
RECURSIVE Climb(_, _, _, _)
RECURSIVE Expr(_, _, _)

\* an operand at ts[i]: a number, a parenthesised expression, or a unary
\* sign applied to an operand (unary binds tightest, to the right)
Primary(ts, i) ==
    IF i > Len(ts) THEN Malformed
    ELSE IF ts[i].kind = "Int"
    THEN IF Len(ts[i].val) <= 9
         THEN [ok |-> TRUE, v |-> NatValue(ts[i].val), i |-> i + 1]
         ELSE Malformed
    ELSE IF ts[i].kind = "LParen"
    THEN LET r == Expr(ts, i + 1, 1)
         IN  IF r.ok /\ r.i <= Len(ts) /\ ts[r.i].kind = "RParen"
             THEN [r EXCEPT !.i = r.i + 1]
             ELSE Malformed
    ELSE IF ts[i].kind \in SignKinds
    THEN LET r == Primary(ts, i + 1)
         IN  IF r.ok /\ ts[i].kind = "MathSub" THEN [r EXCEPT !.v = 0 - r.v]
             ELSE r
    ELSE Malformed

\* the binary operators of precedence at least min that follow the value
\* lhs, applied from left to right
Climb(ts, lhs, i, min) ==
    IF i <= Len(ts) /\ ts[i].kind \in MathKinds /\ Prec(ts[i].kind) >= min
    THEN LET r == Expr(ts, i + 1, Prec(ts[i].kind) + 1)
         IN  IF r.ok /\ Defined(ts[i].kind, lhs, r.v)
             THEN Climb(ts, Apply(ts[i].kind, lhs, r.v), r.i, min)
             ELSE Malformed
    ELSE [ok |-> TRUE, v |-> lhs, i |-> i]

Expr(ts, i, min) ==
    LET p == Primary(ts, i)
    IN  IF p.ok THEN Climb(ts, p.v, p.i, min) ELSE Malformed

\* the value of the text when it is one well-formed parenthesised item
ArithItem ==
    IF /\ lex_result.tag = "Ok" /\ Significant # <<>>
       /\ Significant[1].kind = "LParen"
       /\ \A j \in 1..Len(Significant) : Significant[j].kind \in ScanKinds
    THEN LET r == Primary(Significant, 1)
         IN  IF r.ok /\ r.i = Len(Significant) + 1 THEN r ELSE Malformed
    ELSE Malformed

\* C25: a text that is one well-formed parenthesised arithmetic item never
\* makes parse fail, and parse ends with one node whose value is the value of
\* the expression under the precedence table.
C25_Arithmetic ==
    ArithItem.ok =>
        /\ parse_result.tag # "Err"
        /\ abort = "none"
        /\ phase = "done" =>
              /\ parse_result.tag = "Ok"
              /\ Len(parse_result.value) = 1
              /\ NodeInt(parse_result.value[1].value) = ArithItem.v

-----------------------------------------------------------------------------
(* C26 *)

NoRange ==
    [ok |-> FALSE, a |-> 0, b |-> 0, inclusive |-> FALSE, s |-> 1,
     step_given |-> FALSE, mut_given |-> FALSE, mop |-> "MathAdd", mval |-> 0,
     i |-> 0]

\* the optional argument ', s:<STEP>' at ts[i]
StepArg(ts, i) ==
    IF i + 1 <= Len(ts) /\ ts[i].kind = "Comma" /\ ts[i + 1].kind = "RngStep"
    THEN LET r == Primary(ts, i + 2)
         IN  [ok |-> r.ok, given |-> TRUE, v |-> r.v, i |-> r.i]
    ELSE [ok |-> TRUE, given |-> FALSE, v |-> 0, i |-> i]

\* the optional argument ', m:<MUTATION>' at ts[i]: an operator and its
\* right-hand side
MutArg(ts, i) ==
    IF /\ i + 2 <= Len(ts) /\ ts[i].kind = "Comma"
       /\ ts[i + 1].kind = "RngMutation" /\ ts[i + 2].kind \in MathKinds
    THEN LET r == Primary(ts, i + 3)
         IN  [ok |-> r.ok /\ Defined(ts[i + 2].kind, 1, r.v), given |-> TRUE,
              op |-> ts[i + 2].kind, v |-> r.v, i |-> r.i]
    ELSE [ok |-> TRUE, given |-> FALSE, op |-> "MathAdd", v |-> 0, i |-> i]

\* the range item '{a..b}' or '{a..=b}' with its optional arguments at ts[i];
\* the default step is 1 or -1 toward the end, and a given step must point
\* toward the end
RangeItem(ts, i) ==
    IF i > Len(ts) \/ ts[i].kind # "LSquiggly" THEN NoRange
    ELSE LET a == Primary(ts, i + 1)
         IN  IF \/ ~a.ok \/ a.i > Len(ts)
                \/ ts[a.i].kind \notin {"RngInclusive", "RngExclusive"}
             THEN NoRange
             ELSE LET b == Primary(ts, a.i + 1)
                      st == StepArg(ts, b.i)
                      mu == MutArg(ts, st.i)
                      s == IF st.given THEN st.v
                           ELSE IF b.v >= a.v THEN 1 ELSE 0 - 1
                  IN  IF /\ b.ok /\ st.ok /\ mu.ok
                         /\ mu.i <= Len(ts) /\ ts[mu.i].kind = "RSquiggly"
                         /\ s # 0 /\ (s > 0) = (b.v >= a.v)
                      THEN [ok |-> TRUE, a |-> a.v, b |-> b.v,
                            inclusive |-> ts[a.i].kind = "RngInclusive",
                            s |-> s, step_given |-> st.given,
                            mut_given |-> mu.given, mop |-> mu.op,
                            mval |-> mu.v, i |-> mu.i + 1]
                      ELSE NoRange

\* x does not lie beyond the end of the range r in its direction of travel
Within(r, x) ==
    IF r.s > 0
    THEN IF r.inclusive THEN x <= r.b ELSE x < r.b
    ELSE IF r.inclusive THEN x >= r.b ELSE x > r.b

RECURSIVE PositionsFrom(_, _)
\* the unmutated positions of the range r from x on
PositionsFrom(r, x) ==
    IF Within(r, x) THEN <<x>> \o PositionsFrom(r, x + r.s) ELSE <<>>

Positions(r) == PositionsFrom(r, r.a)

\* the elements of the range r: the mutation applied to each position
Materialize(r) ==
    [k \in 1..Len(Positions(r)) |->
        IF r.mut_given THEN Apply(r.mop, Positions(r)[k], r.mval)
        ELSE Positions(r)[k]]

\* the integers of the nodes parse returned
Flatten(ns) == [k \in 1..Len(ns) |-> NodeInt(ns[k].value)]

\* the text when it is one well-formed range item
TheRange ==
    IF lex_result.tag = "Ok" /\ Significant # <<>>
    THEN LET r == RangeItem(Significant, 1)
         IN  IF r.ok /\ r.i = Len(Significant) + 1 THEN r ELSE NoRange
    ELSE NoRange

Values == Flatten(parse_result.value)

\* C26: a text that is one range item '{a..b}' or '{a..=b}' never makes
\* parse fail, and parse ends with the sequence that starts at a and moves
\* toward b by 1 or -1; the exclusive form does not contain b and the
\* inclusive form ends with b.
C26_RangeMaterialized ==
    (TheRange.ok /\ ~TheRange.step_given /\ ~TheRange.mut_given) =>
        /\ parse_result.tag # "Err"
        /\ abort = "none"
        /\ phase = "done" =>
              /\ parse_result.tag = "Ok"
              /\ Values = Materialize(TheRange)
              /\ ~TheRange.inclusive =>
                    \A k \in 1..Len(Values) : Values[k] # TheRange.b
              /\ TheRange.inclusive => Values[Len(Values)] = TheRange.b

\* C27: a text that is one range item with an explicit step s and no
\* mutation never makes parse fail, and parse ends with the elements a, a + s,
\* a + 2s, ... of which none lies beyond the end and after which the next one
\* would.
C27_ExplicitStep ==
    (TheRange.ok /\ TheRange.step_given /\ ~TheRange.mut_given) =>
        /\ parse_result.tag # "Err"
        /\ abort = "none"
        /\ phase = "done" =>
              /\ parse_result.tag = "Ok"
              /\ \A k \in 1..Len(Values) :
                    /\ Values[k] = TheRange.a + (k - 1) * TheRange.s
                    /\ Within(TheRange, Values[k])
              /\ ~Within(TheRange, TheRange.a + Len(Values) * TheRange.s)

\* the range r without its mutation
Unmutated(r) == [r EXCEPT !.mut_given = FALSE]

\* C28: a text that is one range item with a mutation never makes parse
\* fail, and parse ends with as many values as the range has without the
\* mutation, the k-th being the mutation applied to the k-th unmutated
\* position.
C28_MutationKeepsSteps ==
    (TheRange.ok /\ TheRange.mut_given) =>
        /\ parse_result.tag # "Err"
        /\ abort = "none"
        /\ phase = "done" =>
              /\ parse_result.tag = "Ok"
              /\ Len(Values) = Len(Materialize(Unmutated(TheRange)))
              /\ \A k \in 1..Len(Values) :
                    Values[k] = Apply(TheRange.mop,
                                      Materialize(Unmutated(TheRange))[k],
                                      TheRange.mval)

-----------------------------------------------------------------------------
(* C29 *)

NoList == [ok |-> FALSE, vals |-> <<>>]

RECURSIVE Items(_, _)
\* the values of the comma-separated items from ts[i] on: the elements of a
\* range, the single value of a literal or of an arithmetic item
Items(ts, i) ==
    LET r == RangeItem(ts, i)
        p == Primary(ts, i)
        ok == IF r.ok THEN TRUE ELSE p.ok
        next == IF r.ok THEN r.i ELSE p.i
        vals == IF r.ok THEN Materialize(r) ELSE <<p.v>>
    IN  IF ~ok THEN NoList
        ELSE IF next = Len(ts) + 1 THEN [ok |-> TRUE, vals |-> vals]
        ELSE IF ts[next].kind # "Comma" THEN NoList
        ELSE LET rest == Items(ts, next + 1)
             IN  IF rest.ok THEN [ok |-> TRUE, vals |-> vals \o rest.vals]
                 ELSE NoList

\* the text when it is a well-formed list of items, nested no deeper than the
\* parenthesised bodies enumerated
ItemList ==
    IF lex_result.tag = "Ok" /\ NestingDepth <= MaxBody
    THEN Items(Significant, 1)
    ELSE NoList

\* C29: a well-formed list of items never makes parse fail, and parse ends
\* with the concatenation, in the order of the items, of the value of each
\* literal or arithmetic item and of the elements of each range.
C29_Concatenation ==
    ItemList.ok =>
        /\ parse_result.tag # "Err"
        /\ abort = "none"
        /\ phase = "done" =>
              /\ parse_result.tag = "Ok"
              /\ Values = ItemList.vals

-----------------------------------------------------------------------------
(* C30 *)

\* s is how a token of t's kind is written
Spelt(t, s) ==
    CASE t.kind = "Int" -> s = t.str_val
      [] t.kind = "Space" -> s = <<" ">>
      [] t.kind = "Comma" -> s = <<",">>
      [] t.kind = "LParen" -> s = <<"(">>
      [] t.kind = "RParen" -> s = <<")">>
      [] t.kind = "LSquiggly" -> s = <<"{">>
      [] t.kind = "RSquiggly" -> s = <<"}">>
      [] t.kind = "RngStep" -> s = <<"s", ":">>
      [] t.kind = "RngMutation" -> s = <<"m", ":">>
      [] t.kind \in {"RngInclusive", "RngExclusive"} ->
            \A i \in 1..Len(s) : s[i] \in RangeChars
      [] t.kind \in MathKinds -> Len(s) = 1 /\ OperatorTag(s[1]) = t.kind

\* C30: the position counter never overflows, during lex it is the column
\* of the next character, and when lex succeeds every token's span lies in
\* 1..Len(text) with start <= end, covers the characters the token is
\* written with, and ends before the next token's span starts.
C30_Spans ==
    /\ abort # "attempt to add with overflow"
    /\ phase = "lex" => position = Len(text) - Len(input) + 1
    /\ lex_result.tag = "Ok" =>
          LET ts == lex_result.value
          IN  /\ \A i \in 1..Len(ts) :
                    1 <= ts[i].start /\ ts[i].start <= ts[i].end
                    /\ ts[i].end <= Len(text)
              /\ \A i \in 1..Len(ts) :
                    Spelt(ts[i], SubSeq(text, ts[i].start, ts[i].end))
              /\ \A i \in 1..(Len(ts) - 1) : ts[i].end < ts[i + 1].start

====
